---- MODULE Spec2Model ----
(***************************************************************************)
(* Model of the models_demo application: the relational store behind the   *)
(* Django models of models_demo/models.py (rows, constraints, overridden   *)
(* save methods, cascading deletes), the derived-value methods of Product  *)
(* and the staff-gated order listing of models_demo/views.py.              *)
(*                                                                         *)
(* Units: a DecimalField(decimal_places=2) amount is an integer number of  *)
(* cents; Product.rating and get_discount_percentage() are integers in     *)
(* hundredths (4.5 is 450).  A nullable value is <<>> (None) or <<v>>.      *)
(***************************************************************************)
EXTENDS Integers, FiniteSets, Sequences, TLC

VARIABLES
    categories,   \* primary keys of the stored Category rows
    users,        \* primary keys of the stored auth User rows
    products,     \* pk -> [category, price, discount_price, rating]
    images,       \* pk -> [product, is_primary]
    reviews,      \* pk -> [product, user, rating]
    orders,       \* pk -> [user, status]
    items,        \* pk -> [order, product, quantity, unit_price, total_price]
    last,         \* the last call: [op, ok, err, pk, insert, arg, ret]
    calls         \* request -> the save it is in the middle of, statement by
                  \* statement (empty where saves run one after the other)

vars == <<categories, users, products, images, reviews, orders, items, last, calls>>

(***************************************************************************)
(* Bounds of the model.                                                    *)
(***************************************************************************)
MaxPrice == 4        \* prices and discount prices range over 0..MaxPrice cents
MaxImages == 3       \* primary keys of ProductImage rows
MaxReviews == 3      \* primary keys of Review rows
MaxStars == 6        \* the largest Review.rating value a caller saves
MaxQuantity == 2     \* OrderItem.quantity ranges over 0..MaxQuantity
MaxItems == 2        \* primary keys of OrderItem rows
MaxOrders == 2       \* primary keys of Order rows
MaxParents == 2      \* primary keys of Category and of User rows under deletes
MaxProducts == 2     \* primary keys of Product rows under deletes
MaxChildren == 1     \* primary keys of image, review, order and item rows under deletes

None == <<>>
Some(v) == <<v>>

\* Python truthiness of an optional Decimal: None and Decimal('0.00') are falsy.
Truthy(opt) == opt # None /\ opt[1] # 0

\* round(x, 2) of the quotient n/d (d > 0), as an integer: the nearest integer,
\* a tie going to the even neighbour (Decimal.__round__ and float round).
RoundHalfEven(n, d) ==
    LET q == n \div d
        r == n - q * d
    IN  IF 2 * r < d THEN q
        ELSE IF 2 * r > d THEN q + 1
        ELSE IF q % 2 = 0 THEN q ELSE q + 1

\* The record of a call: the operation, whether it returned normally, the name
\* of the violated constraint when the store raised IntegrityError (else ""),
\* the primary key it worked on, whether a save inserted the row, the values
\* the caller supplied, and what the call returned or computed.
Call(op, ok, err, pk, insert, arg, ret) ==
    [op |-> op, ok |-> ok, err |-> err, pk |-> pk, insert |-> insert,
     arg |-> arg, ret |-> ret]

Returned(op, pk, ret) == Call(op, TRUE, "", pk, FALSE, None, ret)

NoCall == Returned("none", 0, None)

(***************************************************************************)
(* Product: the derived-value methods.                                     *)
(***************************************************************************)
get_final_price(p) ==
    IF Truthy(p.discount_price) THEN p.discount_price[1] ELSE p.price

get_discount_percentage(p) ==
    IF Truthy(p.discount_price) /\ p.price > 0
    THEN RoundHalfEven((p.price - p.discount_price[1]) * 10000, p.price)
    ELSE 0

is_on_sale(p) ==
    Truthy(p.discount_price) /\ p.discount_price[1] < p.price

Row(category, price, discount_price, rating) ==
    [category |-> category, price |-> price,
     discount_price |-> discount_price, rating |-> rating]

Prices == 0 .. MaxPrice
DiscountPrices == {None} \cup {Some(d) : d \in Prices}

CallGetFinalPrice(pk) ==
    /\ pk \in DOMAIN products
    /\ last' = Returned("get_final_price", pk, get_final_price(products[pk]))
    /\ UNCHANGED <<calls, categories, users, products, images, reviews, orders, items>>

CallGetDiscountPercentage(pk) ==
    /\ pk \in DOMAIN products
    /\ last' = Returned("get_discount_percentage", pk,
                        get_discount_percentage(products[pk]))
    /\ UNCHANGED <<calls, categories, users, products, images, reviews, orders, items>>

CallIsOnSale(pk) ==
    /\ pk \in DOMAIN products
    /\ last' = Returned("is_on_sale", pk, is_on_sale(products[pk]))
    /\ UNCHANGED <<calls, categories, users, products, images, reviews, orders, items>>

EmptyMap == [x \in {} |-> 0]

\* One stored product whose price and discount price are any valid amounts.
InitPrice ==
    /\ categories = {1}
    /\ users = {}
    /\ \E price \in Prices, d \in DiscountPrices :
           products = [pk \in {1} |-> Row(1, price, d, 0)]
    /\ images = EmptyMap
    /\ reviews = EmptyMap
    /\ orders = EmptyMap
    /\ items = EmptyMap
    /\ last = NoCall
    /\ calls = EmptyMap

NextPrice ==
    \/ CallGetFinalPrice(1)
    \/ CallGetDiscountPercentage(1)
    \/ CallIsOnSale(1)

SpecPrice == InitPrice /\ [][NextPrice]_vars

\* C4: get_final_price() returns discount_price whenever it is not null
\* (a discount price of 0 included), and price otherwise.
C4_FinalPriceIsDiscountWhenNotNull ==
    last.op = "get_final_price" =>
        LET p == products[last.pk]
        IN  last.ret = IF p.discount_price # None THEN p.discount_price[1] ELSE p.price

\* C5: get_discount_percentage() is 100 * (price - discount_price) / price
\* rounded to 2 decimals for a product with a discount (0 included) and
\* price > 0, and 0 for a product without a discount or with price = 0.
C5_DiscountPercentage ==
    last.op = "get_discount_percentage" =>
        LET p == products[last.pk]
        IN  last.ret = IF p.discount_price # None /\ p.price > 0
                       THEN RoundHalfEven((p.price - p.discount_price[1]) * 10000, p.price)
                       ELSE 0

\* C6: is_on_sale is true exactly when discount_price is set (0 included) and
\* strictly less than price.
C6_OnSaleIffDiscountBelowPrice ==
    last.op = "is_on_sale" =>
        LET p == products[last.pk]
        IN  last.ret = (p.discount_price # None /\ p.discount_price[1] < p.price)

(***************************************************************************)
(* ProductImage: the conditional unique constraint and the overridden save. *)
(***************************************************************************)
ImageRow(product, is_primary) == [product |-> product, is_primary |-> is_primary]

\* The rows of map m other than pk.
Others(m, pk) == DOMAIN m \ {pk}

\* m with row pk inserted or overwritten.
Put(m, pk, row) == [k \in DOMAIN m \cup {pk} |-> IF k = pk THEN row ELSE m[k]]

\* The smallest primary key of 1..max that map m does not hold (0: none left).
NextPk(m, max) ==
    IF \E k \in 1 .. max : k \notin DOMAIN m
    THEN CHOOSE k \in 1 .. max : k \notin DOMAIN m /\ \A j \in 1 .. k - 1 : j \in DOMAIN m
    ELSE 0

\* Faulty variant: a store that does not enforce the constraint.
unique_primary_image_unchecked(imgs, pk, row) == TRUE

\* UniqueConstraint(fields=['product', 'is_primary'], condition=Q(is_primary=True)):
\* whether the store accepts row as row pk beside the rows of imgs.
unique_primary_image_per_product(imgs, pk, row) ==
    row.is_primary =>
        \A k \in Others(imgs, pk) :
            ~(imgs[k].product = row.product /\ imgs[k].is_primary)

\* The primary keys filter(product=.., is_primary=True).exclude(pk=..) selects.
OtherPrimaries(imgs, product, pk) ==
    {k \in Others(imgs, pk) : imgs[k].product = product /\ imgs[k].is_primary}

\* Faulty variant: the other primary images keep their flag.
ClearNoPrimaries(imgs, product, pk) == imgs

\* .update(is_primary=False) on those rows.

ClearOtherPrimaries(imgs, product, pk) ==
    [k \in DOMAIN imgs |->
        IF k \in OtherPrimaries(imgs, product, pk)
        THEN [imgs[k] EXCEPT !.is_primary = FALSE]
        ELSE imgs[k]]

\* ProductImage.save() of the instance with primary key pk (a new instance when
\* the store holds no such row), with the field values the caller set.
SaveImage(pk, product, is_primary) ==
    LET row     == ImageRow(product, is_primary)
        cleared == IF is_primary THEN OtherPrimaries(images, product, pk) ELSE {}
        imgs1   == IF is_primary THEN ClearOtherPrimaries(images, product, pk) ELSE images
        err     == IF product \notin DOMAIN products THEN "product_id"
                   ELSE IF ~unique_primary_image_per_product(imgs1, pk, row)
                   THEN "unique_primary_image_per_product"
                   ELSE ""
    IN  /\ pk # 0
        /\ images' = IF err = "" THEN Put(imgs1, pk, row) ELSE imgs1
        /\ last' = Call("ProductImage.save", err = "", err, pk,
                        pk \notin DOMAIN images, row, cleared)
        /\ UNCHANGED <<calls, categories, users, products, orders, items, reviews>>

\* Two products of one category, no image yet.
InitImage ==
    /\ categories = {1}
    /\ users = {}
    /\ products = [pk \in {1, 2} |-> Row(1, 1, None, 0)]
    /\ images = EmptyMap
    /\ reviews = EmptyMap
    /\ orders = EmptyMap
    /\ items = EmptyMap
    /\ last = NoCall
    /\ calls = EmptyMap

NextImage ==
    \/ \E product \in DOMAIN products, is_primary \in BOOLEAN :
           SaveImage(NextPk(images, MaxImages), product, is_primary)
    \/ \E pk \in DOMAIN images, product \in DOMAIN products, is_primary \in BOOLEAN :
           SaveImage(pk, product, is_primary)

SpecImage == InitImage /\ [][NextImage]_vars

PrimaryImages(product) ==
    {k \in DOMAIN images : images[k].product = product /\ images[k].is_primary}

\* C1: after any sequence of ProductImage saves every product has at most one
\* image with is_primary=true, and a save with is_primary=true succeeds and
\* leaves the saved image as the only primary image of its product.
C1_AtMostOnePrimaryImage ==
    /\ \A product \in DOMAIN products : Cardinality(PrimaryImages(product)) <= 1
    /\ (last.op = "ProductImage.save" /\ last.arg.is_primary) =>
           /\ last.ok
           /\ PrimaryImages(last.arg.product) = {last.pk}

\* A second image saved as primary took the flag from the first one.
C1_Witness ==
    /\ last.op = "ProductImage.save"
    /\ last.ok /\ last.insert /\ last.arg.is_primary
    /\ last.ret # {}
    /\ \A k \in last.ret : images[k].product = last.arg.product /\ ~images[k].is_primary

(***************************************************************************)
(* Product: the check constraints and save.                                *)
(***************************************************************************)
\* CheckConstraint(check=Q(price__gte=0), name='price_positive')
price_positive(row) == row.price >= 0

\* Faulty variant: the store does not check the rating.
rating_range_unchecked(row) == TRUE

\* CheckConstraint(check=Q(rating__gte=0, rating__lte=5), name='rating_range')

rating_range(row) == row.rating >= 0 /\ row.rating <= 500

\* The constraint that rejects row as a row of demo_products ("": none).
ProductError(row) ==
    IF row.category \notin categories THEN "category_id"
    ELSE IF ~price_positive(row) THEN "price_positive"
    ELSE IF ~rating_range(row) THEN "rating_range"
    ELSE ""

\* Product.save() (models.Model.save: Product does not override it): every
\* field is written; the field validators are not run.
SaveProduct(pk, category, price, discount_price, rating) ==
    LET row == Row(category, price, discount_price, rating)
        err == ProductError(row)
    IN  /\ pk # 0
        /\ products' = IF err = "" THEN Put(products, pk, row) ELSE products
        /\ last' = Call("Product.save", err = "", err, pk,
                        pk \notin DOMAIN products, row, None)
        /\ UNCHANGED <<calls, categories, users, images, reviews, orders, items>>

(***************************************************************************)
(* Review: the unique constraint, save and update_product_rating.          *)
(***************************************************************************)
ReviewRow(product, user, rating) == [product |-> product, user |-> user, rating |-> rating]

\* Faulty variant: the store does not check the pair.
unique_review_unchecked(revs, pk, row) == TRUE

\* UniqueConstraint(fields=['product', 'user'])

unique_review_per_user_per_product(revs, pk, row) ==
    \A k \in Others(revs, pk) :
        ~(revs[k].product = row.product /\ revs[k].user = row.user)

\* Faulty variant: the average is taken over the reviews of every product.
ReviewsOfAnyProduct(revs, product) == DOMAIN revs

\* self.product.reviews: the reviews referencing the product.
ReviewsOf(revs, product) == {k \in DOMAIN revs : revs[k].product = product}

RECURSIVE SumRatings(_, _)
SumRatings(revs, S) ==
    IF S = {} THEN 0
    ELSE LET k == CHOOSE x \in S : TRUE
         IN  revs[k].rating + SumRatings(revs, S \ {k})

\* round(aggregate(avg=Avg('rating'))['avg'] or 0.0, 2), in hundredths.
AvgRating(revs, product) ==
    LET S == ReviewsOf(revs, product)
    IN  IF S = {} THEN 0
        ELSE RoundHalfEven(100 * SumRatings(revs, S), Cardinality(S))

\* Review.save(): super().save() persists the row; update_product_rating()
\* then writes the product's rating alone (update_fields=['rating']).  The
\* two writes are separate statements: when the second is rejected the first
\* stays.
SaveReview(pk, product, user, rating) ==
    LET row   == ReviewRow(product, user, rating)
        err1  == IF product \notin DOMAIN products THEN "product_id"
                 ELSE IF user \notin users THEN "user_id"
                 ELSE IF ~unique_review_per_user_per_product(reviews, pk, row)
                 THEN "unique_review_per_user_per_product"
                 ELSE ""
        revs1 == IF err1 = "" THEN Put(reviews, pk, row) ELSE reviews
        avg   == IF err1 = "" THEN AvgRating(revs1, product) ELSE 0
        err2  == IF err1 = "" /\ ~rating_range([products[product] EXCEPT !.rating = avg])
                 THEN "rating_range" ELSE ""
        err   == IF err1 # "" THEN err1 ELSE err2
    IN  /\ pk # 0
        /\ reviews' = revs1
        /\ products' = IF err = ""
                       THEN [products EXCEPT ![product].rating = avg]
                       ELSE products
        /\ last' = Call("Review.save", err = "", err, pk,
                        pk \notin DOMAIN reviews, row, avg)
        /\ UNCHANGED <<calls, categories, users, images, orders, items>>

\* The rating values callers save: the valid ratings 4 and 5 and the values
\* above the validators' range 1..5 up to MaxStars; and with them 0, the
\* value below the range.
HighStars == 4 .. MaxStars
Stars == {0} \cup HighStars

\* Two products, as many users as review rows, no review yet.
InitReview ==
    /\ categories = {1}
    /\ users = 1 .. MaxReviews
    /\ products = [pk \in {1, 2} |-> Row(1, 1, None, 0)]
    /\ images = EmptyMap
    /\ reviews = EmptyMap
    /\ orders = EmptyMap
    /\ items = EmptyMap
    /\ last = NoCall
    /\ calls = EmptyMap

NextReview ==
    \/ \E product \in DOMAIN products, user \in users, rating \in HighStars :
           SaveReview(NextPk(reviews, MaxReviews), product, user, rating)
    \/ \E pk \in DOMAIN reviews, rating \in HighStars :
           SaveReview(pk, reviews[pk].product, reviews[pk].user, rating)

SpecReview == InitReview /\ [][NextReview]_vars

\* The stored reviews that reference the product.
StoredReviewsOf(product) == {k \in DOMAIN reviews : reviews[k].product = product}

\* Whether r (in hundredths) is the mean of the product's stored ratings
\* rounded to 2 decimals: no multiple of 0.01 lies nearer to the mean.
IsRoundedMean(r, product) ==
    LET S == StoredReviewsOf(product)
        n == Cardinality(S)
        d == r * n - 100 * SumRatings(reviews, S)
    IN  n > 0 /\ 2 * d <= n /\ 2 * (0 - d) <= n

\* C2: after each Review save (a new review, or a re-save that changes the
\* rating) the rating of the product the saved review references is the mean
\* of the ratings of all stored reviews of that product, rounded to 2
\* decimals.  The save completes unless the mean leaves the range 0..5, which
\* takes a stored rating above 5.
C2_RatingIsRoundedMean ==
    last.op = "Review.save" =>
        /\ last.ok => IsRoundedMean(products[last.arg.product].rating, last.arg.product)
        /\ last.err = "rating_range" =>
               \E k \in StoredReviewsOf(last.arg.product) : reviews[k].rating > 5

\* A re-save changed a rating of a product with three reviews, 4, 4 and 5,
\* whose mean 4.333... is stored as 4.33.
C2_Witness ==
    /\ last.op = "Review.save" /\ last.ok /\ ~last.insert
    /\ Cardinality(StoredReviewsOf(last.arg.product)) = 3
    /\ SumRatings(reviews, StoredReviewsOf(last.arg.product)) = 13
    /\ products[last.arg.product].rating = 433

\* Whether the store holds a review of the pair under another primary key.
PairTaken(pk, product, user) ==
    \E k \in DOMAIN reviews \ {pk} : reviews[k].product = product /\ reviews[k].user = user

\* C9: at most one Review exists per (product, user) pair in every reachable
\* state; saving a new Review for a pair that already has one fails, and
\* leaves the stored reviews and the product's rating as they were.
C9_UniqueReviewPerPair ==
    [][ /\ \A j, k \in DOMAIN reviews' :
               (reviews'[j].product = reviews'[k].product
                /\ reviews'[j].user = reviews'[k].user) => j = k
        /\ (last'.op = "Review.save"
            /\ last'.pk \notin DOMAIN reviews
            /\ PairTaken(last'.pk, last'.arg.product, last'.arg.user)) =>
               /\ ~last'.ok
               /\ last'.err = "unique_review_per_user_per_product"
               /\ reviews' = reviews
               /\ products' = products ]_vars

\* A new review for a pair that has one was refused.
C9_Witness ==
    /\ last.op = "Review.save" /\ last.insert /\ ~last.ok
    /\ last.err = "unique_review_per_user_per_product"
    /\ PairTaken(last.pk, last.arg.product, last.arg.user)
    /\ last.arg.rating * 100 # products[last.arg.product].rating

(***************************************************************************)
(* The check constraints of Product under Product and Review saves.        *)
(***************************************************************************)
\* The prices a caller saves: one below 0 and the valid ones.
PriceInputs == -1 .. MaxPrice

\* The ratings a caller of Product.save has set: the ends of the range 0..5
\* and their outer neighbours.
RatingInputs == {-1, 0, 500, 501}

\* One category, two users, no product yet.
InitRange ==
    /\ categories = {1}
    /\ users = {1, 2}
    /\ products = EmptyMap
    /\ images = EmptyMap
    /\ reviews = EmptyMap
    /\ orders = EmptyMap
    /\ items = EmptyMap
    /\ last = NoCall
    /\ calls = EmptyMap

NextRange ==
    \/ \E price \in PriceInputs, rating \in RatingInputs :
           SaveProduct(1, 1, price, None, rating)
    \/ \E user \in users, rating \in Stars :
           SaveReview(NextPk(reviews, MaxReviews), 1, user, rating)
    \/ \E pk \in DOMAIN reviews, rating \in Stars :
           SaveReview(pk, reviews[pk].product, reviews[pk].user, rating)

SpecRange == InitRange /\ [][NextRange]_vars

\* C8: every stored Product has price >= 0 and 0 <= rating <= 5, also after
\* Review saves with ratings outside 1..5; a Product save with a price or a
\* rating outside the range, and a Review save whose mean exceeds 5, is
\* rejected by the store (IntegrityError) and leaves no such value stored.
C8_ProductRangesHold ==
    /\ \A pk \in DOMAIN products :
           /\ products[pk].price >= 0
           /\ products[pk].rating >= 0 /\ products[pk].rating <= 500
    /\ (last.op = "Product.save"
        /\ (last.arg.price < 0 \/ last.arg.rating < 0 \/ last.arg.rating > 500)) =>
           ~last.ok /\ last.err \in {"price_positive", "rating_range"}
    /\ (last.op = "Review.save" /\ last.arg.product \in DOMAIN products
        /\ last.err # "unique_review_per_user_per_product"
        /\ SumRatings(reviews, StoredReviewsOf(last.arg.product))
               > 5 * Cardinality(StoredReviewsOf(last.arg.product))) =>
           ~last.ok /\ last.err = "rating_range"

\* A Review save with rating 6 was persisted and its rating write refused.
C8_Witness ==
    /\ last.op = "Review.save" /\ ~last.ok /\ last.err = "rating_range"
    /\ last.pk \in DOMAIN reviews /\ reviews[last.pk].rating = 6
    /\ products[last.arg.product].rating <= 500

(***************************************************************************)
(* OrderItem: the overridden save.                                         *)
(***************************************************************************)
ItemRow(order, product, quantity, unit_price, total_price) ==
    [order |-> order, product |-> product, quantity |-> quantity,
     unit_price |-> unit_price, total_price |-> total_price]

\* Faulty variant: the total_price the caller set is kept.
SuppliedTotal(item) == item.total_price

\* self.quantity * self.unit_price
ItemTotal(item) == item.quantity * item.unit_price

\* OrderItem.save() of the instance with primary key pk whose fields the
\* caller set (total_price included): total_price is assigned, then the row
\* is written.
SaveOrderItem(pk, order, product, quantity, unit_price, total_price) ==
    LET given == ItemRow(order, product, quantity, unit_price, total_price)
        row   == [given EXCEPT !.total_price = ItemTotal(given)]
        err   == IF order \notin DOMAIN orders THEN "order_id"
                 ELSE IF product \notin DOMAIN products THEN "product_id"
                 ELSE ""
    IN  /\ pk # 0
        /\ items' = IF err = "" THEN Put(items, pk, row) ELSE items
        /\ last' = Call("OrderItem.save", err = "", err, pk,
                        pk \notin DOMAIN items, given, row.total_price)
        /\ UNCHANGED <<calls, categories, users, products, images, reviews, orders>>

Quantities == 0 .. MaxQuantity

\* The total_price a caller has set on the instance before saving it.
TotalInputs == {0, MaxPrice}

\* One order of one user and one product, no order item yet.
InitItem ==
    /\ categories = {1}
    /\ users = {1}
    /\ products = [pk \in {1} |-> Row(1, 1, None, 0)]
    /\ images = EmptyMap
    /\ reviews = EmptyMap
    /\ orders = [pk \in {1} |-> [user |-> 1, status |-> "pending"]]
    /\ items = EmptyMap
    /\ last = NoCall
    /\ calls = EmptyMap

NextItem ==
    \/ \E quantity \in Quantities, unit_price \in Prices,
          total_price \in TotalInputs :
           SaveOrderItem(NextPk(items, MaxItems), 1, 1, quantity, unit_price, total_price)
    \/ \E pk \in DOMAIN items, quantity \in Quantities, unit_price \in Prices,
          total_price \in TotalInputs :
           SaveOrderItem(pk, 1, 1, quantity, unit_price, total_price)

SpecItem == InitItem /\ [][NextItem]_vars

\* C3: every stored OrderItem has total_price = quantity * unit_price, and a
\* save stores the quantity and unit_price the caller set with their product
\* as total_price, whatever total_price the caller had set.
C3_TotalPriceIsProduct ==
    /\ \A k \in DOMAIN items :
           items[k].total_price = items[k].quantity * items[k].unit_price
    /\ (last.op = "OrderItem.save" /\ last.ok) =>
           /\ items[last.pk].quantity = last.arg.quantity
           /\ items[last.pk].unit_price = last.arg.unit_price
           /\ items[last.pk].total_price = last.arg.quantity * last.arg.unit_price

\* A re-save with another quantity and a wrong caller-supplied total.
C3_Witness ==
    /\ last.op = "OrderItem.save" /\ last.ok /\ ~last.insert
    /\ last.arg.total_price # last.arg.quantity * last.arg.unit_price
    /\ items[last.pk].total_price = 6 /\ items[last.pk].quantity = 2

(***************************************************************************)
(* Order and the order listing view.                                       *)
(***************************************************************************)
OrderRow(user, status) == [user |-> user, status |-> status]

\* Order.save() (models.Model.save: Order does not override it).
SaveOrder(pk, user, status) ==
    LET row == OrderRow(user, status)
        err == IF user \notin users THEN "user_id" ELSE ""
    IN  /\ pk # 0
        /\ orders' = IF err = "" THEN Put(orders, pk, row) ELSE orders
        /\ last' = Call("Order.save", err = "", err, pk, pk \notin DOMAIN orders, row, None)
        /\ UNCHANGED <<calls, categories, users, products, images, reviews, items>>

\* Python truthiness of request.GET.get('status'): None and '' are falsy.
TruthyStr(opt) == opt # None /\ opt[1] # ""

\* The response of the view: the template rendered and the orders in its
\* context (None: the template is rendered without a context).
Response(template, listed) == [template |-> template, orders |-> listed]

\* Faulty variant: the listing is rendered for every caller.
order_list_ungated(ords, is_staff, status) ==
    IF TruthyStr(status)
    THEN Response("models_demo/order_list.html",
                  Some({k \in DOMAIN ords : ords[k].status = status[1]}))
    ELSE Response("models_demo/order_list.html", Some(DOMAIN ords))

order_list(ords, is_staff, status) ==
    IF ~is_staff
    THEN Response("models_demo/access_denied.html", None)
    ELSE IF TruthyStr(status)
    THEN Response("models_demo/order_list.html",
                  Some({k \in DOMAIN ords : ords[k].status = status[1]}))
    ELSE Response("models_demo/order_list.html", Some(DOMAIN ords))

\* GET /models-demo/orders/ by a caller whose request.user.is_staff is
\* is_staff, with the query parameter status (None: absent).
OrderList(is_staff, status) ==
    /\ last' = Call("order_list", TRUE, "", 0, FALSE,
                    [is_staff |-> is_staff, status |-> status],
                    order_list(orders, is_staff, status))
    /\ UNCHANGED <<calls, categories, users, products, images, reviews, orders, items>>

Statuses == {"pending", "shipped", "cancelled"}

\* The status parameter of a request: absent, empty, a status orders have,
\* or a value no order has.
StatusParams == {None, Some(""), Some("pending"), Some("shipped"), Some("refunded")}

\* One user, no order yet.
InitOrderList ==
    /\ categories = {}
    /\ users = {1}
    /\ products = EmptyMap
    /\ images = EmptyMap
    /\ reviews = EmptyMap
    /\ orders = EmptyMap
    /\ items = EmptyMap
    /\ last = NoCall
    /\ calls = EmptyMap

NextOrderList ==
    \/ \E status \in Statuses : SaveOrder(NextPk(orders, MaxOrders), 1, status)
    \/ \E pk \in DOMAIN orders, status \in Statuses : SaveOrder(pk, 1, status)
    \/ \E is_staff \in BOOLEAN, status \in StatusParams : OrderList(is_staff, status)

SpecOrderList == InitOrderList /\ [][NextOrderList]_vars

OrdersWithStatus(status) == {k \in DOMAIN orders : orders[k].status = status}

\* C7 as stated: a caller without staff privilege receives the access-denied
\* response and no order data; a staff caller receives exactly the orders
\* whose status equals the status parameter when one is given, and all
\* orders otherwise.
C7_OrderListAsStated ==
    last.op = "order_list" =>
        IF ~last.arg.is_staff
        THEN last.ret = Response("models_demo/access_denied.html", None)
        ELSE /\ last.ret.template = "models_demo/order_list.html"
             /\ last.ret.orders =
                    IF last.arg.status # None
                    THEN Some(OrdersWithStatus(last.arg.status[1]))
                    ELSE Some(DOMAIN orders)

\* C7 amended: as stated, except that a staff caller receives the orders
\* whose status equals the status parameter only when a non-empty one is
\* given, and all orders when the parameter is absent or empty.
C7_OrderListNonEmptyStatus ==
    last.op = "order_list" =>
        IF ~last.arg.is_staff
        THEN last.ret = Response("models_demo/access_denied.html", None)
        ELSE /\ last.ret.template = "models_demo/order_list.html"
             /\ last.ret.orders =
                    IF last.arg.status # None /\ last.arg.status # Some("")
                    THEN Some(OrdersWithStatus(last.arg.status[1]))
                    ELSE Some(DOMAIN orders)

\* A staff caller asked for one status and got some orders, not all.
C7_Witness ==
    /\ last.op = "order_list" /\ last.arg.is_staff
    /\ last.arg.status = Some("shipped")
    /\ last.ret.orders # Some({}) /\ last.ret.orders # Some(DOMAIN orders)

(***************************************************************************)
(* Inserts and cascading deletes (on_delete=models.CASCADE).               *)
(***************************************************************************)
\* Category.save() and User.save() of a new row.
SaveCategory(pk) ==
    /\ pk # 0
    /\ categories' = categories \cup {pk}
    /\ last' = Call("Category.save", TRUE, "", pk, pk \notin categories, None, None)
    /\ UNCHANGED <<calls, users, products, images, reviews, orders, items>>

SaveUser(pk) ==
    /\ pk # 0
    /\ users' = users \cup {pk}
    /\ last' = Call("User.save", TRUE, "", pk, pk \notin users, None, None)
    /\ UNCHANGED <<calls, categories, products, images, reviews, orders, items>>

\* The smallest primary key of 1..max not in the set S (0: none left).
NextId(S, max) ==
    IF \E k \in 1 .. max : k \notin S
    THEN CHOOSE k \in 1 .. max : k \notin S /\ \A j \in 1 .. k - 1 : j \in S
    ELSE 0

\* m without the rows S.
Without(m, S) == [k \in DOMAIN m \ S |-> m[k]]

\* The rows the collector gathers through each foreign key.
ProductsOfCategories(prods, C) == {k \in DOMAIN prods : prods[k].category \in C}
ImagesOfProducts(imgs, P) == {k \in DOMAIN imgs : imgs[k].product \in P}
ReviewsOfProducts(revs, P) == {k \in DOMAIN revs : revs[k].product \in P}
ReviewsOfUsers(revs, U) == {k \in DOMAIN revs : revs[k].user \in U}
OrdersOfUsers(ords, U) == {k \in DOMAIN ords : ords[k].user \in U}
\* Faulty variant: deleting a product leaves its order items.
ItemsOfNoProducts(its, P) == {}
ItemsOfProducts(its, P) == {k \in DOMAIN its : its[k].product \in P}
ItemsOfOrders(its, O) == {k \in DOMAIN its : its[k].order \in O}

\* The number of rows deleted from each table, as delete() returns it.
Deleted(C, U, P, I, R, O, T) ==
    [categories |-> Cardinality(C), users |-> Cardinality(U),
     products |-> Cardinality(P), images |-> Cardinality(I),
     reviews |-> Cardinality(R), orders |-> Cardinality(O),
     items |-> Cardinality(T)]

\* delete() of the categories C, the users U, the products P and the orders O
\* with everything that references them through a CASCADE foreign key.
CascadeDelete(op, pk, C, U, P0, O0) ==
    LET P == P0 \cup ProductsOfCategories(products, C)
        O == O0 \cup OrdersOfUsers(orders, U)
        I == ImagesOfProducts(images, P)
        R == ReviewsOfProducts(reviews, P) \cup ReviewsOfUsers(reviews, U)
        T == ItemsOfProducts(items, P) \cup ItemsOfOrders(items, O)
    IN  /\ categories' = categories \ C
        /\ users' = users \ U
        /\ products' = Without(products, P)
        /\ images' = Without(images, I)
        /\ reviews' = Without(reviews, R)
        /\ orders' = Without(orders, O)
        /\ items' = Without(items, T)
        /\ last' = Call(op, TRUE, "", pk, FALSE, None, Deleted(C, U, P, I, R, O, T))
        /\ UNCHANGED calls

DeleteCategory(pk) == pk \in categories /\ CascadeDelete("Category.delete", pk, {pk}, {}, {}, {})
DeleteUser(pk) == pk \in users /\ CascadeDelete("User.delete", pk, {}, {pk}, {}, {})
DeleteProduct(pk) == pk \in DOMAIN products /\ CascadeDelete("Product.delete", pk, {}, {}, {pk}, {})
DeleteOrder(pk) == pk \in DOMAIN orders /\ CascadeDelete("Order.delete", pk, {}, {}, {}, {pk})

\* The empty store.
InitCascade ==
    /\ categories = {}
    /\ users = {}
    /\ products = EmptyMap
    /\ images = EmptyMap
    /\ reviews = EmptyMap
    /\ orders = EmptyMap
    /\ items = EmptyMap
    /\ last = NoCall
    /\ calls = EmptyMap

ParentIds == 1 .. MaxParents
ProductIds == 1 .. MaxProducts
ChildIds == 1 .. MaxChildren

\* Inserts name any parent key, stored or not; the store refuses a row whose
\* parent is not stored.
NextCascade ==
    \/ SaveCategory(NextId(categories, MaxParents))
    \/ SaveUser(NextId(users, MaxParents))
    \/ \E category \in ParentIds :
           SaveProduct(NextPk(products, MaxProducts), category, 1, None, 0)
    \/ \E product \in ProductIds :
           SaveImage(NextPk(images, MaxChildren), product, FALSE)
    \/ \E product \in ProductIds, user \in ParentIds :
           SaveReview(NextPk(reviews, MaxChildren), product, user, 5)
    \/ \E user \in ParentIds :
           SaveOrder(NextPk(orders, MaxChildren), user, "pending")
    \/ \E order \in ChildIds, product \in ProductIds :
           SaveOrderItem(NextPk(items, MaxChildren), order, product, 1, 1, 0)
    \/ \E pk \in categories : DeleteCategory(pk)
    \/ \E pk \in users : DeleteUser(pk)
    \/ \E pk \in DOMAIN products : DeleteProduct(pk)
    \/ \E pk \in DOMAIN orders : DeleteOrder(pk)

SpecCascade == InitCascade /\ [][NextCascade]_vars

\* C10: after any sequence of inserts and deletes no row references a
\* deleted parent: every product's category, every image's, review's and
\* item's product, every review's and order's user and every item's order is
\* stored, and the deleted row itself is gone.
C10_NoDanglingReference ==
    /\ \A k \in DOMAIN products : products[k].category \in categories
    /\ \A k \in DOMAIN images : images[k].product \in DOMAIN products
    /\ \A k \in DOMAIN reviews :
           reviews[k].product \in DOMAIN products /\ reviews[k].user \in users
    /\ \A k \in DOMAIN orders : orders[k].user \in users
    /\ \A k \in DOMAIN items :
           items[k].order \in DOMAIN orders /\ items[k].product \in DOMAIN products
    /\ last.op = "Category.delete" => last.pk \notin categories
    /\ last.op = "User.delete" => last.pk \notin users
    /\ last.op = "Product.delete" => last.pk \notin DOMAIN products
    /\ last.op = "Order.delete" => last.pk \notin DOMAIN orders

\* Deleting a category took a product and its image, review and order item.
C10_Witness ==
    /\ last.op = "Category.delete"
    /\ last.ret.products > 0 /\ last.ret.images > 0
    /\ last.ret.reviews > 0 /\ last.ret.items > 0
    /\ last.ret.orders = 0 /\ orders # EmptyMap

(***************************************************************************)
(* Removing reviews: Review.delete() and the cascade from User.            *)
(***************************************************************************)
\* Faulty variant: a delete recomputes the rating of every product from the
\* reviews left (0 when none is left).
RecomputeRatings(prods, revs) ==
    [p \in DOMAIN prods |-> [prods[p] EXCEPT !.rating = AvgRating(revs, p)]]

\* Review overrides save() alone: no delete() override and no signal handler
\* touches Product when a review is removed.
KeepRatings(prods, revs) == prods

\* Review.delete() (models.Model.delete): nothing references a review.
DeleteReview(pk) ==
    /\ pk \in DOMAIN reviews
    /\ reviews' = Without(reviews, {pk})
    /\ products' = KeepRatings(products, Without(reviews, {pk}))
    /\ last' = Call("Review.delete", TRUE, "", pk, FALSE, None,
                    Deleted({}, {}, {}, {}, {pk}, {}, {}))
    /\ UNCHANGED <<calls, categories, users, images, orders, items>>

\* One product, two users, no review yet.
InitReviewDelete ==
    /\ categories = {1}
    /\ users = {1, 2}
    /\ products = [pk \in {1} |-> Row(1, 1, None, 0)]
    /\ images = EmptyMap
    /\ reviews = EmptyMap
    /\ orders = EmptyMap
    /\ items = EmptyMap
    /\ last = NoCall
    /\ calls = EmptyMap

NextReviewDelete ==
    \/ \E user \in users, rating \in HighStars :
           SaveReview(NextPk(reviews, MaxReviews), 1, user, rating)
    \/ \E pk \in DOMAIN reviews, rating \in HighStars :
           SaveReview(pk, reviews[pk].product, reviews[pk].user, rating)
    \/ \E pk \in DOMAIN reviews : DeleteReview(pk)
    \/ \E pk \in users : DeleteUser(pk)
    \/ SaveUser(NextId(users, MaxParents))

SpecReviewDelete == InitReviewDelete /\ [][NextReviewDelete]_vars

\* C13: removing a Review, directly or by the cascade from its User, leaves
\* every Product row as it was; a product's rating changes only in a Review
\* save for that product, so after a deletion it stays at the value the last
\* such save computed.
C13_DeleteKeepsRating ==
    [][ /\ last'.op \in {"Review.delete", "User.delete"} =>
               /\ products' = products
               /\ DOMAIN reviews' # DOMAIN reviews => last'.ret.reviews > 0
        /\ \A p \in DOMAIN products \cap DOMAIN products' :
               products'[p].rating # products[p].rating =>
                   /\ last'.op = "Review.save" /\ last'.ok
                   /\ last'.arg.product = p
                   /\ products'[p].rating = last'.ret ]_vars

\* A user's deletion took a review and left the product with a rating that
\* is not the mean of the reviews that remain.
C13_Witness ==
    /\ last.op = "User.delete" /\ last.ret.reviews > 0
    /\ \E p \in DOMAIN products :
           /\ StoredReviewsOf(p) # {}
           /\ ~IsRoundedMean(products[p].rating, p)

(***************************************************************************)
(* Concurrent Review saves.  No save runs in a transaction, so the store   *)
(* interleaves the statements of two requests: the INSERT or UPDATE of the *)
(* review, the SELECT of the average, the UPDATE of the product's rating.  *)
(***************************************************************************)
Requests == {1, 2}

\* A save in flight: the statement it runs next (pc), the primary key of its
\* row (0: not inserted yet), the field values of the instance, the average
\* it read, and how it ended once pc is "done".
InFlight(op, pc, pk, insert, row, avg, ok, err) ==
    [op |-> op, pc |-> pc, pk |-> pk, insert |-> insert, row |-> row,
     avg |-> avg, ok |-> ok, err |-> err]

Idle(p) == IF p \in DOMAIN calls THEN calls[p].pc = "done" ELSE TRUE

\* Faulty variant: the rating is computed again when it is written.
RereadRating(avg, revs, product) == AvgRating(revs, product)

\* self.product.rating = round(avg_rating, 2): the value written is the one
\* computed from the average read before.
RatingToWrite(avg, revs, product) == avg

\* super().save(): the first statement of Review.save() of request p, for a
\* new instance (pk = 0) or the instance of a stored row.
PersistReviewStep(p, pk, product, user, rating) ==
    LET row  == ReviewRow(product, user, rating)
        new  == IF pk = 0 THEN NextPk(reviews, MaxReviews) ELSE pk
        err  == IF product \notin DOMAIN products THEN "product_id"
                ELSE IF user \notin users THEN "user_id"
                ELSE IF ~unique_review_per_user_per_product(reviews, new, row)
                THEN "unique_review_per_user_per_product"
                ELSE ""
    IN  /\ Idle(p)
        /\ new # 0
        /\ reviews' = IF err = "" THEN Put(reviews, new, row) ELSE reviews
        /\ calls' = Put(calls, p,
                        IF err = ""
                        THEN InFlight("Review.save", "read", new, pk = 0, row, 0, TRUE, "")
                        ELSE InFlight("Review.save", "done", new, pk = 0, row, 0, FALSE, err))
        /\ last' = IF err = "" THEN last
                   ELSE Call("Review.save", FALSE, err, new, pk = 0, row, 0)
        /\ UNCHANGED <<categories, users, products, images, orders, items>>

\* self.product.reviews.aggregate(avg=models.Avg('rating'))['avg'] or 0.0
ReadAverageStep(p) ==
    /\ p \in DOMAIN calls /\ calls[p].pc = "read"
    /\ calls' = [calls EXCEPT ![p].pc = "write",
                              ![p].avg = AvgRating(reviews, calls[p].row.product)]
    /\ UNCHANGED <<categories, users, products, images, reviews, orders, items, last>>

\* self.product.save(update_fields=['rating'])
WriteRatingStep(p) ==
    /\ p \in DOMAIN calls /\ calls[p].pc = "write"
    /\ LET product == calls[p].row.product
           rating  == RatingToWrite(calls[p].avg, reviews, product)
           err     == IF ~rating_range([products[product] EXCEPT !.rating = rating])
                      THEN "rating_range" ELSE ""
       IN  /\ products' = IF err = ""
                          THEN [products EXCEPT ![product].rating = rating]
                          ELSE products
           /\ calls' = [calls EXCEPT ![p].pc = "done", ![p].ok = (err = ""),
                                     ![p].err = err]
           /\ last' = Call("Review.save", err = "", err, calls[p].pk,
                           calls[p].insert, calls[p].row, rating)
    /\ UNCHANGED <<categories, users, images, reviews, orders, items>>

\* One product, two users, no review, no request in flight.
InitReviewRace ==
    /\ categories = {1}
    /\ users = {1, 2}
    /\ products = [pk \in {1} |-> Row(1, 1, None, 0)]
    /\ images = EmptyMap
    /\ reviews = EmptyMap
    /\ orders = EmptyMap
    /\ items = EmptyMap
    /\ last = NoCall
    /\ calls = EmptyMap

\* The ratings the racing requests submit: two valid star counts.
RaceStars == {MaxStars - 2, MaxStars - 1}

NextReviewRace ==
    \/ \E p \in Requests, user \in users, rating \in RaceStars :
           PersistReviewStep(p, 0, 1, user, rating)
    \/ \E p \in Requests, pk \in DOMAIN reviews, rating \in RaceStars :
           PersistReviewStep(p, pk, reviews[pk].product, reviews[pk].user, rating)
    \/ \E p \in Requests : ReadAverageStep(p)
    \/ \E p \in Requests : WriteRatingStep(p)

SpecReviewRace == InitReviewRace /\ [][NextReviewRace]_vars

\* Request p's save went from pc a to pc b in this step.
Moved(p, a, b) ==
    /\ p \in DOMAIN calls /\ calls[p].pc = a
    /\ p \in DOMAIN calls' /\ calls'[p].pc = b

\* C11: concurrent Review saves can race.  Each save reads the rounded mean
\* of the product's reviews stored at the time of its read and later writes
\* that value as the product's rating, whatever was persisted in between; so
\* an interleaving of two saves ends, both completed, with a rating that is
\* not the rounded mean of the stored reviews (C11_Witness).
C11_WriteStoresEarlierRead ==
    [][ \A p \in Requests :
            /\ Moved(p, "read", "write") =>
                   IsRoundedMean(calls'[p].avg, calls[p].row.product)
            /\ (Moved(p, "write", "done") /\ calls'[p].ok) =>
                   products'[calls[p].row.product].rating = calls[p].avg ]_vars

\* Both saves have completed and the product's rating differs from the mean
\* of all its stored reviews' ratings rounded to 2 decimals.
C11_Witness ==
    /\ \A p \in Requests : p \in DOMAIN calls /\ calls[p].pc = "done" /\ calls[p].ok
    /\ calls[1].row.product = calls[2].row.product
    /\ calls[1].pk # calls[2].pk
    /\ Cardinality(StoredReviewsOf(calls[1].row.product)) = 2
    /\ ~IsRoundedMean(products[calls[1].row.product].rating, calls[1].row.product)

(***************************************************************************)
(* Concurrent ProductImage saves.  save() runs outside any transaction, so *)
(* the store interleaves the statements of two requests: the UPDATE that   *)
(* clears the other primary images and the INSERT or UPDATE of the row.    *)
(***************************************************************************)
\* An image save in flight: the statement it runs next (pc), the primary key
\* of its instance (0: not inserted yet), its field values, the rows its
\* UPDATE cleared, and how it ended once pc is "done".
ImageInFlight(pc, pk, insert, row, cleared, ok, err) ==
    [op |-> "ProductImage.save", pc |-> pc, pk |-> pk, insert |-> insert,
     row |-> row, cleared |-> cleared, ok |-> ok, err |-> err]

\* The requests that are about to insert a new image.
PendingInserts ==
    {q \in DOMAIN calls : calls[q].pc = "persist" /\ calls[q].insert}

\* super().save(): the INSERT (pk = 0) or UPDATE of request p's row, checked
\* by the store against the rows it holds at that moment.
PersistImage(p, pk, row, cleared) ==
    LET new == IF pk = 0 THEN NextPk(images, MaxImages) ELSE pk
        err == IF row.product \notin DOMAIN products THEN "product_id"
               ELSE IF ~unique_primary_image_per_product(images, new, row)
               THEN "unique_primary_image_per_product"
               ELSE ""
    IN  /\ new # 0
        /\ images' = IF err = "" THEN Put(images, new, row) ELSE images
        /\ calls' = Put(calls, p,
                        ImageInFlight("done", new, pk = 0, row, cleared, err = "", err))
        /\ last' = Call("ProductImage.save", err = "", err, new, pk = 0, row, cleared)

\* The first statement of ProductImage.save() of request p: the UPDATE of the
\* other primary images when is_primary is set, super().save() otherwise.
StartImageSave(p, pk, product, is_primary) ==
    LET row == ImageRow(product, is_primary)
    IN  /\ Idle(p)
        /\ pk = 0 => Cardinality(DOMAIN images) + Cardinality(PendingInserts) < MaxImages
        /\ IF is_primary
           THEN /\ images' = ClearOtherPrimaries(images, product, pk)
                /\ calls' = Put(calls, p,
                                ImageInFlight("persist", pk, pk = 0, row,
                                              OtherPrimaries(images, product, pk), TRUE, ""))
                /\ last' = last
           ELSE PersistImage(p, pk, row, {})
        /\ UNCHANGED <<categories, users, products, reviews, orders, items>>

\* super().save() of a request that has run its UPDATE.
PersistImageStep(p) ==
    /\ p \in DOMAIN calls /\ calls[p].pc = "persist"
    /\ PersistImage(p, calls[p].pk, calls[p].row, calls[p].cleared)
    /\ UNCHANGED <<categories, users, products, reviews, orders, items>>

\* One product, no image, no request in flight.
InitImageRace ==
    /\ categories = {1}
    /\ users = {}
    /\ products = [pk \in {1} |-> Row(1, 1, None, 0)]
    /\ images = EmptyMap
    /\ reviews = EmptyMap
    /\ orders = EmptyMap
    /\ items = EmptyMap
    /\ last = NoCall
    /\ calls = EmptyMap

NextImageRace ==
    \/ \E p \in Requests, is_primary \in BOOLEAN : StartImageSave(p, 0, 1, is_primary)
    \/ \E p \in Requests, pk \in DOMAIN images, is_primary \in BOOLEAN :
           StartImageSave(p, pk, images[pk].product, is_primary)
    \/ \E p \in Requests : PersistImageStep(p)

SpecImageRace == InitImageRace /\ [][NextImageRace]_vars

\* C12: when ProductImage saves with is_primary=true for one product run
\* concurrently, their clear and persist statements interleaved in any order,
\* no step stores two primary images of a product: a persist of a primary
\* row that meets another stored primary image of its product fails with the
\* violation of unique_primary_image_per_product and stores nothing.
C12_ConflictingPersistFails ==
    [][ /\ \A product \in DOMAIN products' :
               Cardinality({k \in DOMAIN images' :
                               images'[k].product = product /\ images'[k].is_primary}) <= 1
        /\ \A p \in Requests :
               (/\ Moved(p, "persist", "done")
                /\ calls[p].row.is_primary
                /\ OtherPrimaries(images, calls[p].row.product, calls[p].pk) # {})
               => /\ images' = images
                  /\ ~calls'[p].ok
                  /\ calls'[p].err = "unique_primary_image_per_product" ]_vars

\* Two saves with is_primary=true of different images of one product have both
\* ended: one stored its row, the other failed on the constraint, and the
\* product has exactly one primary image.
C12_Witness ==
    /\ \A p \in Requests :
           p \in DOMAIN calls /\ calls[p].pc = "done" /\ calls[p].row.is_primary
    /\ calls[1].row.product = calls[2].row.product
    /\ calls[1].pk # calls[2].pk
    /\ \E p, q \in Requests :
           /\ calls[p].ok
           /\ ~calls[q].ok /\ calls[q].err = "unique_primary_image_per_product"
           /\ PrimaryImages(calls[p].row.product) = {calls[p].pk}

====
